---- MODULE Spec2Model ----
(***************************************************************************)
(* Connect 4 with a minimax / alpha-beta AI (src/main.cpp).                *)
(*                                                                         *)
(* The game loop of main(), dropPiece, the evaluation engine, the move     *)
(* ordering, the adaptive depth and minimax with its memo cache.  minimax  *)
(* is recursive in the source; here its activation records are kept on an  *)
(* explicit stack and one action is one stretch of the function between    *)
(* two calls/returns.                                                      *)
(***************************************************************************)
EXTENDS Integers, Sequences, FiniteSets, TLC

\* ------------------------------------------------------------------------
\* Configuration (src/main.cpp:33-35) and <climits>
\* ------------------------------------------------------------------------
ROWS == 6
COLS == 7
MAX_MEMORY_SIZE == 2000000
INT_MAX == 2147483647
INT_MIN == -INT_MAX - 1

\* Bounds of the model (not program constants).
\* Human inputs are the numbers 0..MaxInput (the prompt asks for 1-7).
MaxInput == 8
\* Two humans playing each other choose MaxFree + 1 inputs freely.
MaxFree == 1
\* Scaled-down cache ceiling used by SpecSmallCache in place of 2000000.
SmallCache == 10

EMPTY == " "

Rows == 0..(ROWS - 1)
Cols == 0..(COLS - 1)

\* initBoard
initBoard == [r \in Rows |-> [c \in Cols |-> EMPTY]]

\* ------------------------------------------------------------------------
\* Raw access to char board[ROWS][COLS]: b[r][col] is the byte at offset
\* r*COLS+col of the array.  For col in 0..COLS-1 this is the cell (r,col).
\* For any other col the C++ expression is out of bounds of the row: inside
\* the 42 bytes it aliases another cell, outside them it reads or writes a
\* byte that is not part of the board (content oob, chosen by the caller).
\* ------------------------------------------------------------------------
Offset(r, col) == r * COLS + col

InBoard(r, col) == Offset(r, col) >= 0 /\ Offset(r, col) < ROWS * COLS

Read(b, r, col, oob) ==
    IF InBoard(r, col)
    THEN b[Offset(r, col) \div COLS][Offset(r, col) % COLS]
    ELSE oob

Write(b, r, col, v) ==
    IF InBoard(r, col)
    THEN [b EXCEPT ![Offset(r, col) \div COLS][Offset(r, col) % COLS] = v]
    ELSE b

\* getNextOpenRow: scan r = ROWS-1 down to 0, first r with b[r][col] == ' '.
RECURSIVE ScanOpenRow(_, _, _, _)
ScanOpenRow(b, col, r, oob) ==
    IF r < 0 THEN -1
    ELSE IF Read(b, r, col, oob) = EMPTY THEN r
    ELSE ScanOpenRow(b, col, r - 1, oob)

getNextOpenRowRaw(b, col, oob) == ScanOpenRow(b, col, ROWS - 1, oob)

\* For a column index in range no byte outside the board is touched.
getNextOpenRow(b, col) == getNextOpenRowRaw(b, col, "#")

\* speculative placement b[row][col] = piece and its undo b[row][col] = ' '
Place(b, row, col, piece) == [b EXCEPT ![row][col] = piece]

\* an undo that leaves the speculative piece where it is
UndoSkipped(b, row, col) == b

Undo(b, row, col) == [b EXCEPT ![row][col] = EMPTY]

\* ------------------------------------------------------------------------
\* The 4-cell windows scanned by checkWin and evaluateBoard
\* ------------------------------------------------------------------------
HorizWindows ==
    { << <<r, c>>, <<r, c + 1>>, <<r, c + 2>>, <<r, c + 3>> >> :
        r \in 0..(ROWS - 1), c \in 0..(COLS - 4) }

VertWindows ==
    { << <<r, c>>, <<r + 1, c>>, <<r + 2, c>>, <<r + 3, c>> >> :
        r \in 0..(ROWS - 4), c \in 0..(COLS - 1) }

DiagDownWindows ==
    { << <<r, c>>, <<r + 1, c + 1>>, <<r + 2, c + 2>>, <<r + 3, c + 3>> >> :
        r \in 0..(ROWS - 4), c \in 0..(COLS - 4) }

DiagUpWindows ==
    { << <<r, c>>, <<r + 1, c - 1>>, <<r + 2, c - 2>>, <<r + 3, c - 3>> >> :
        r \in 0..(ROWS - 4), c \in 3..(COLS - 1) }

Windows == HorizWindows \cup VertWindows \cup DiagDownWindows \cup DiagUpWindows

RECURSIVE SetToSeq(_)
SetToSeq(S) ==
    IF S = {} THEN <<>>
    ELSE LET x == CHOOSE y \in S : TRUE IN <<x>> \o SetToSeq(S \ {x})

WindowList == SetToSeq(Windows)

CellAt(b, rc) == b[rc[1]][rc[2]]

\* checkWin
checkWin(b, p) ==
    \E w \in Windows : \A i \in 1..4 : CellAt(b, w[i]) = p

\* dropPiece(col, player) on the global board; the result is
\* <<returned bool, board afterwards>>.
dropPiece(b, col, player, oob) ==
    LET row == getNextOpenRowRaw(b, col, oob)
    IN IF row # -1 THEN <<TRUE, Write(b, row, col, player)>>
       ELSE <<FALSE, b>>

\* ------------------------------------------------------------------------
\* Evaluation engine
\* ------------------------------------------------------------------------
\* isValidPlacement (defined in the source, called from nowhere)
isValidPlacement(r, c, b) ==
    IF r < 0 \/ r >= ROWS \/ c < 0 \/ c >= COLS THEN FALSE
    ELSE IF r = ROWS - 1 THEN TRUE
    ELSE b[r + 1][c] # EMPTY

B2I(x) == IF x THEN 1 ELSE 0

evaluateWindow(c1, c2, c3, c4, piece) ==
    LET countPiece == B2I(c1 = piece) + B2I(c2 = piece) + B2I(c3 = piece) + B2I(c4 = piece)
        countEmpty == B2I(c1 = EMPTY) + B2I(c2 = EMPTY) + B2I(c3 = EMPTY) + B2I(c4 = EMPTY)
        countOpp == 4 - countPiece - countEmpty
        left_open == (c1 = EMPTY)
        right_open == (c4 = EMPTY)
        connected == \/ (c1 = piece /\ c2 = piece)
                     \/ (c2 = piece /\ c3 = piece)
                     \/ (c3 = piece /\ c4 = piece)
        offense == IF countPiece = 3 /\ countEmpty = 1
                   THEN (IF left_open /\ right_open THEN 5000 ELSE 150)
                   ELSE IF countPiece = 2 /\ countEmpty = 2
                   THEN (IF connected THEN 50 ELSE 60)
                   ELSE 0
        defense == IF countOpp = 3 /\ countEmpty = 1
                   THEN (IF left_open /\ right_open THEN -10000 ELSE -500)
                   ELSE IF countOpp = 2 /\ countEmpty = 2 THEN -50
                   ELSE 0
    IN IF countPiece = 4 THEN 1000000 ELSE offense + defense

\* what one window adds to evaluateBoard's sum
WindowScore(b, w, piece) ==
    evaluateWindow(CellAt(b, w[1]), CellAt(b, w[2]), CellAt(b, w[3]), CellAt(b, w[4]), piece)

RECURSIVE SumWindows(_, _, _)
SumWindows(b, piece, i) ==
    IF i = 0 THEN 0
    ELSE WindowScore(b, WindowList[i], piece) + SumWindows(b, piece, i - 1)

\* "Center Control" loop of evaluateBoard
RECURSIVE CenterControl(_, _, _)
CenterControl(b, piece, r) ==
    IF r >= ROWS THEN 0
    ELSE (IF b[r][COLS \div 2] = piece THEN 200 ELSE 0)
         + (IF b[r][COLS \div 2 - 1] = piece \/ b[r][COLS \div 2 + 1] = piece THEN 100 ELSE 0)
         + CenterControl(b, piece, r + 1)

evaluateBoard(b, piece) ==
    CenterControl(b, piece, 0) + SumWindows(b, piece, Len(WindowList))

evaluateMoveSimple(b, piece) == evaluateBoard(b, piece)

\* ------------------------------------------------------------------------
\* AI utilities.  The helpers write to the board they are given and restore
\* it; each returns its value together with the board as it leaves it.
\* ------------------------------------------------------------------------
RECURSIVE CountThreatsFrom(_, _, _)
CountThreatsFrom(b, piece, col) ==
    IF col >= COLS THEN <<0, b>>
    ELSE LET row == getNextOpenRow(b, col)
         IN IF row # -1
            THEN LET placed == Place(b, row, col, piece)
                     hit == checkWin(placed, piece)
                     rest == CountThreatsFrom(Undo(placed, row, col), piece, col + 1)
                 IN <<B2I(hit) + rest[1], rest[2]>>
            ELSE CountThreatsFrom(b, piece, col + 1)

countThreats(b, piece) == CountThreatsFrom(b, piece, 0)

Abs(x) == IF x < 0 THEN -x ELSE x

Max(x, y) == IF x > y THEN x ELSE y

Min(x, y) == IF x < y THEN x ELSE y

\* std::sort with comparator a.second > b.second.  For at most 7 elements
\* the library runs an insertion sort, which keeps equal scores in column
\* order: each element goes in front of the first strictly smaller one.
RECURSIVE InsertPos(_, _, _)
InsertPos(sorted, score, i) ==
    IF i > Len(sorted) THEN i
    ELSE IF sorted[i][2] < score THEN i
    ELSE InsertPos(sorted, score, i + 1)

InsertSorted(sorted, e) ==
    LET k == InsertPos(sorted, e[2], 1)
    IN SubSeq(sorted, 1, k - 1) \o <<e>> \o SubSeq(sorted, k, Len(sorted))

RECURSIVE SortMoves(_, _, _)
SortMoves(ms, i, acc) ==
    IF i > Len(ms) THEN acc
    ELSE SortMoves(ms, i + 1, InsertSorted(acc, ms[i]))

\* the loop of getOptimizedMoves: <<moves_with_score, board afterwards>>
RECURSIVE ScoreMovesFrom(_, _, _)
ScoreMovesFrom(b, piece, col) ==
    IF col >= COLS THEN << <<>>, b >>
    ELSE LET row == getNextOpenRow(b, col)
         IN IF row = -1 THEN ScoreMovesFrom(b, piece, col + 1)
            ELSE LET placed == Place(b, row, col, piece)
                     raw == IF checkWin(placed, piece) THEN 1000000
                            ELSE evaluateMoveSimple(placed, piece)
                     back == Undo(placed, row, col)
                     score == raw + (30 - Abs(col - 3) * 10)
                              + (IF row < ROWS - 1 /\ back[row + 1][col] = piece
                                 THEN 40 ELSE 0)
                     rest == ScoreMovesFrom(back, piece, col + 1)
                 IN << << <<col, score>> >> \o rest[1], rest[2] >>

\* getOptimizedMoves: <<ordered columns, board afterwards>>
getOptimizedMoves(b, maximizingPlayer) ==
    LET piece == IF maximizingPlayer THEN "O" ELSE "X"
        scored == ScoreMovesFrom(b, piece, 0)
        sorted == SortMoves(scored[1], 1, <<>>)
    IN << [i \in 1..Len(sorted) |-> sorted[i][1]], scored[2] >>

\* minimax, lines 294-295: the cells that hold ' '
EmptyCells(b) == Cardinality({rc \in Rows \X Cols : b[rc[1]][rc[2]] = EMPTY})

\* getAdaptiveDepth, lines 275-276: the cells that do not hold ' '
PlayedCells(b) == Cardinality({rc \in Rows \X Cols : b[rc[1]][rc[2]] # EMPTY})

\* getAdaptiveDepth: <<depth, board afterwards>>
getAdaptiveDepth(b, base_depth) ==
    LET tO == countThreats(b, "O")
        tX == countThreats(tO[2], "X")
        threats == tO[1] + tX[1]
        moves_played == PlayedCells(tX[2])
        d == IF threats >= 2 THEN base_depth + 2
             ELSE IF threats = 1 THEN base_depth + 1
             ELSE IF moves_played < 8 THEN Max(3, base_depth - 1)
             ELSE IF moves_played > 30 THEN base_depth + 1
             ELSE base_depth
    IN <<d, tX[2]>>

\* getBoardHash: the 42 cells row by row
getBoardHash(b) ==
    [k \in 1..(ROWS * COLS) |-> b[(k - 1) \div COLS][(k - 1) % COLS]]

\* key = getBoardHash(b) + to_string(depth) + ("T" or "F").  The hash has a
\* fixed length and the decimal depth holds no letter, so the string is
\* determined by, and determines, this triple.
MemoKey(b, depth, maximizingPlayer) ==
    <<getBoardHash(b), depth, IF maximizingPlayer THEN "T" ELSE "F">>

\* ------------------------------------------------------------------------
\* State
\* ------------------------------------------------------------------------
VARIABLES
    board,          \* char board[ROWS][COLS]
    memo,           \* unordered_map<string, pair<int,int>> memo
    memoCeiling,    \* the value of MAX_MEMORY_SIZE in this run
    gameMode,       \* 1 classic, 2 score attack
    isAI,           \* opponentMode == 2
    aiDepth,        \* 2, 4, 6 or 7
    moves,          \* main: moves
    current,        \* main: current
    gameOver,       \* main: gameOver
    targetCol,      \* main: targetCol of the latest turn
    pc,             \* "turn": top of the while loop; "search": inside minimax
    inputs,         \* human inputs still to be typed from the script
    free,           \* human inputs that may still be chosen freely
    b,              \* the board minimax works on (main: boardCopy)
    original_depth, \* minimax: original_depth of the running search
    stack,          \* activation records of minimax, root first
    seen            \* history: for each key, the pair its first invocation returned

vars == <<board, memo, memoCeiling, gameMode, isAI, aiDepth, moves, current,
          gameOver, targetCol, pc, inputs, free, b, original_depth, stack, seen>>

isScoreAttack == gameMode = 2

Other(p) == IF p = "X" THEN "O" ELSE "X"

\* one activation of minimax, as it stands right after the call
NewFrame(bd, depth, alpha, beta, maximizingPlayer) ==
    [ depth |-> depth, alpha |-> alpha, beta |-> beta,
      maximizingPlayer |-> maximizingPlayer,
      key |-> MemoKey(bd, depth, maximizingPlayer),
      valid_locs |-> <<>>, idx |-> 0,
      bestCol |-> -1, bestScore |-> 0,
      row |-> -1, col |-> -1,
      phase |-> "enter",          \* enter, loop, ret
      pruned |-> FALSE,           \* the loop was left by break
      how |-> "none",             \* which return statement was taken
      result |-> <<-1, 0>>,       \* the pair returned
      entry |-> bd ]              \* the board at the call

Top == stack[Len(stack)]

SetTop(f) == [stack EXCEPT ![Len(stack)] = f]

\* a return whose column is one past the last column of the board
ReturnedBadColumn(f, how, result) ==
    [f EXCEPT !.phase = "ret", !.how = how, !.result = <<COLS, result[2]>>]

Returned(f, how, result) == [f EXCEPT !.phase = "ret", !.how = how, !.result = result]

MemoPut(m, key, val) == [k \in DOMAIN m \cup {key} |-> IF k = key THEN val ELSE m[k]]

EmptyMemo == [k \in {} |-> <<-1, 0>>]

\* history of returns: the first pair returned for a key is kept
Remember(f) == IF f.key \in DOMAIN seen THEN seen ELSE MemoPut(seen, f.key, f.result)

\* ------------------------------------------------------------------------
\* minimax, lines 286-306: from the call to the first loop iteration
\* ------------------------------------------------------------------------
MinimaxEnter ==
    /\ pc = "search"
    /\ stack # <<>>
    /\ Top.phase = "enter"
    /\ LET f == Top
           empty_cells == EmptyCells(b)
           depth == IF empty_cells <= original_depth * 2 /\ ~isScoreAttack
                    THEN empty_cells ELSE f.depth
           locs == getOptimizedMoves(b, f.maximizingPlayer)
           g == IF f.key \in DOMAIN memo
                THEN Returned(f, "hit", memo[f.key])
                ELSE IF ~isScoreAttack /\ checkWin(b, "O")
                THEN Returned(f, "win", <<-1, 1000000 + f.depth>>)
                ELSE IF ~isScoreAttack /\ checkWin(b, "X")
                THEN Returned(f, "loss", <<-1, -1000000 - f.depth>>)
                ELSE IF depth = 0
                THEN Returned([f EXCEPT !.depth = depth], "leaf",
                              <<-1, evaluateBoard(b, "O")>>)
                ELSE IF locs[1] = <<>>
                THEN Returned([f EXCEPT !.depth = depth], "nomoves", <<-1, 0>>)
                ELSE [f EXCEPT !.depth = depth,
                               !.valid_locs = locs[1],
                               !.idx = 1,
                               !.bestCol = locs[1][1],
                               !.bestScore = IF f.maximizingPlayer
                                             THEN INT_MIN ELSE INT_MAX,
                               !.phase = "loop"]
       IN /\ stack' = SetTop(g)
          /\ b' = IF g.how \in {"hit", "win", "loss", "leaf"} THEN b ELSE locs[2]
          /\ seen' = IF g.phase = "ret" THEN Remember(g) ELSE seen
    /\ UNCHANGED <<board, memo, memoCeiling, gameMode, isAI, aiDepth, moves, current,
                   gameOver, targetCol, pc, inputs, free, original_depth>>

\* lines 310-312 / 329-331: place the piece and call minimax for the child
MinimaxDescend ==
    /\ pc = "search"
    /\ stack # <<>>
    /\ Top.phase = "loop"
    /\ Top.idx <= Len(Top.valid_locs)
    /\ LET f == Top
           col == f.valid_locs[f.idx]
           row == getNextOpenRow(b, col)
           placed == Place(b, row, col, IF f.maximizingPlayer THEN "O" ELSE "X")
       IN /\ b' = placed
          /\ stack' = Append(SetTop([f EXCEPT !.row = row, !.col = col]),
                             NewFrame(placed, f.depth - 1, f.alpha, f.beta,
                                      ~f.maximizingPlayer))
    /\ UNCHANGED <<board, memo, memoCeiling, gameMode, isAI, aiDepth, moves, current,
                   gameOver, targetCol, pc, inputs, free, original_depth, seen>>

\* lines 313-324 / 332-339: the child has returned; undo, compare, cut or prune
MinimaxReturn ==
    /\ pc = "search"
    /\ Len(stack) >= 2
    /\ Top.phase = "ret"
    /\ LET score == Top.result[2]
           f == stack[Len(stack) - 1]
           rest == SubSeq(stack, 1, Len(stack) - 2)
           better == IF f.maximizingPlayer THEN score > f.bestScore
                     ELSE score < f.bestScore
           bestScore == IF better THEN score ELSE f.bestScore
           bestCol == IF better THEN f.col ELSE f.bestCol
           cut == /\ f.maximizingPlayer
                  /\ better
                  /\ f.depth = original_depth
                  /\ score > 900000
           alpha == IF f.maximizingPlayer THEN Max(f.alpha, bestScore) ELSE f.alpha
           beta == IF f.maximizingPlayer THEN f.beta ELSE Min(f.beta, bestScore)
           stop == alpha >= beta
           g == [f EXCEPT !.bestScore = bestScore, !.bestCol = bestCol,
                          !.alpha = alpha, !.beta = beta]
           h == IF cut
                THEN Returned([f EXCEPT !.bestScore = bestScore, !.bestCol = bestCol],
                              "cutoff", <<bestCol, bestScore>>)
                ELSE IF stop
                THEN [g EXCEPT !.idx = Len(f.valid_locs) + 1, !.pruned = TRUE]
                ELSE [g EXCEPT !.idx = f.idx + 1]
       IN /\ b' = Undo(b, f.row, f.col)
          /\ memo' = IF cut THEN MemoPut(memo, f.key, <<bestCol, bestScore>>) ELSE memo
          /\ stack' = Append(rest, h)
          /\ seen' = IF cut THEN Remember(h) ELSE seen
    /\ UNCHANGED <<board, memoCeiling, gameMode, isAI, aiDepth, moves, current,
                   gameOver, targetCol, pc, inputs, free, original_depth>>

\* lines 343-346: after the loop, store or clear, and return
MinimaxFinish ==
    /\ pc = "search"
    /\ stack # <<>>
    /\ Top.phase = "loop"
    /\ Top.idx > Len(Top.valid_locs)
    /\ LET f == Top
           res == <<f.bestCol, f.bestScore>>
       IN /\ memo' = IF Cardinality(DOMAIN memo) < memoCeiling
                     THEN MemoPut(memo, f.key, res)
                     ELSE EmptyMemo
          /\ stack' = SetTop(Returned(f, IF f.pruned THEN "pruned" ELSE "normal", res))
          /\ seen' = Remember(Returned(f, "normal", res))
    /\ UNCHANGED <<board, memoCeiling, gameMode, isAI, aiDepth, moves, current,
                   gameOver, targetCol, pc, inputs, free, b, original_depth>>

\* ------------------------------------------------------------------------
\* main: the game loop
\* ------------------------------------------------------------------------
maxMoves == ROWS * COLS

\* what a byte outside the board may hold when it is read
OutsideBytes == {EMPTY, "#"}

\* lines 489-503: dropPiece(targetCol, current) and what follows it
AfterDrop(col, oob) ==
    LET d == dropPiece(board, col, current, oob)
        won == gameMode = 1 /\ checkWin(d[2], current)
    IN /\ targetCol' = col
       /\ board' = d[2]
       /\ IF d[1]
          THEN /\ moves' = moves + 1
               /\ gameOver' = won
               /\ current' = IF won THEN current ELSE Other(current)
          ELSE UNCHANGED <<moves, gameOver, current>>

\* lines 484-486 and 489-503: a human types a number
HumanTurn ==
    /\ pc = "turn"
    /\ ~gameOver
    /\ moves < maxMoves
    /\ ~(isAI /\ current = "O")
    /\ \E input \in 0..MaxInput, oob \in OutsideBytes :
          /\ IF inputs # <<>>
             THEN input = Head(inputs) /\ inputs' = Tail(inputs) /\ free' = free
             ELSE free > 0 /\ free' = free - 1 /\ inputs' = inputs
          /\ AfterDrop(input - 1, oob)
    /\ UNCHANGED <<memo, memoCeiling, gameMode, isAI, aiDepth, pc, b,
                   original_depth, stack, seen>>

\* lines 461-470: the one-ply win / block loop on boardCopy:
\* <<targetCol, boardCopy afterwards>>
RECURSIVE ShortCircuit(_, _)
ShortCircuit(bc, col) ==
    IF col >= COLS THEN <<-1, bc>>
    ELSE LET row == getNextOpenRow(bc, col)
         IN IF row = -1 THEN ShortCircuit(bc, col + 1)
            ELSE IF checkWin(Place(bc, row, col, "O"), "O") /\ ~isScoreAttack
            THEN <<col, Place(bc, row, col, "O")>>
            ELSE IF checkWin(Place(bc, row, col, "X"), "X") /\ ~isScoreAttack
            THEN <<col, Place(bc, row, col, "X")>>
            ELSE ShortCircuit(Undo(Place(bc, row, col, "X"), row, col), col + 1)

\* line 480: the first column with an open row, or -1
RECURSIVE FirstOpen(_, _)
FirstOpen(bd, k) ==
    IF k >= COLS THEN -1
    ELSE IF getNextOpenRow(bd, k) # -1 THEN k
    ELSE FirstOpen(bd, k + 1)

\* lines 454-477: the AI's turn up to the call of minimax; when the one-ply
\* loop has chosen a column, the rest of the turn (lines 479-503) as well
AIThink ==
    /\ pc = "turn"
    /\ ~gameOver
    /\ moves < maxMoves
    /\ isAI /\ current = "O"
    /\ LET adaptive == getAdaptiveDepth(board, aiDepth)
           sc == ShortCircuit(adaptive[2], 0)
       IN IF sc[1] # -1
          THEN /\ \E oob \in OutsideBytes : AfterDrop(sc[1], oob)
               /\ b' = sc[2]
               /\ UNCHANGED <<pc, stack, original_depth>>
          ELSE /\ b' = sc[2]
               /\ original_depth' = adaptive[1]
               /\ stack' = <<NewFrame(sc[2], adaptive[1], INT_MIN, INT_MAX, TRUE)>>
               /\ pc' = "search"
               /\ targetCol' = -1
               /\ board' = adaptive[2]
               /\ UNCHANGED <<moves, gameOver, current>>
    /\ UNCHANGED <<memo, memoCeiling, gameMode, isAI, aiDepth, inputs, free, seen>>

\* lines 476-503: minimax has returned to main
AIMove ==
    /\ pc = "search"
    /\ Len(stack) = 1
    /\ Top.phase = "ret"
    /\ LET col == IF Top.result[1] # -1 THEN Top.result[1] ELSE FirstOpen(board, 0)
       IN \E oob \in OutsideBytes : AfterDrop(col, oob)
    /\ pc' = "turn"
    /\ stack' = <<>>
    /\ UNCHANGED <<memo, memoCeiling, gameMode, isAI, aiDepth, inputs, free, b,
                   original_depth, seen>>

\* ------------------------------------------------------------------------
\* Sessions.  A session is fixed by the three menu choices and by the
\* numbers the humans type: the numbers of a script, or freely chosen ones.
\* ------------------------------------------------------------------------
Session(mode, ai, depth, script, freeInputs) ==
    [gameMode |-> mode, isAI |-> ai, aiDepth |-> depth, inputs |-> script,
     free |-> freeInputs]

\* play from the empty board with freely chosen inputs: two humans in either
\* mode, and one human move answered by the AI
OpenSessions ==
    { Session(1, FALSE, 2, <<>>, MaxFree + 1),
      Session(2, FALSE, 2, <<>>, MaxFree + 1),
      Session(1, TRUE, 2, <<>>, 1) }

\* scripted games against the AI: one in which the AI overlooks a win, one
\* played to the last cells of the board, one of score attack
ScriptedSessions ==
    { Session(1, TRUE, 2, <<1, 1, 3, 1>>, 0),
      Session(1, TRUE, 2, <<4, 2, 4, 3, 5, 6, 4, 7, 6, 7, 6, 7, 2, 2, 7, 5, 1>>, 0),
      Session(2, TRUE, 2, <<4, 4, 2>>, 0) }

Sessions == OpenSessions \cup ScriptedSessions

InitSession(S, ceiling) ==
    /\ board = initBoard
    /\ memo = EmptyMemo
    /\ memoCeiling = ceiling
    /\ \E s \in S :
          /\ gameMode = s.gameMode
          /\ isAI = s.isAI
          /\ aiDepth = s.aiDepth
          /\ inputs = s.inputs
          /\ free = s.free
    /\ moves = 0
    /\ current = "X"
    /\ gameOver = FALSE
    /\ targetCol = -1
    /\ pc = "turn"
    /\ b = initBoard
    /\ original_depth = 0
    /\ stack = <<>>
    /\ seen = EmptyMemo

Init == InitSession(Sessions, MAX_MEMORY_SIZE)

Next ==
    \/ HumanTurn
    \/ AIThink
    \/ MinimaxEnter
    \/ MinimaxDescend
    \/ MinimaxReturn
    \/ MinimaxFinish
    \/ AIMove

Spec == Init /\ [][Next]_vars

\* The same game with the cache ceiling scaled down, so that a session
\* reaches it.
SmallCacheSessions ==
    { Session(1, TRUE, 2, <<1, 1, 4, 7>>, 0),
      Session(2, TRUE, 2, <<1, 1, 5, 4, 1, 1>>, 0) }

InitSmallCache == InitSession(SmallCacheSessions, SmallCache)

SpecSmallCache == InitSmallCache /\ [][Next]_vars

\* ------------------------------------------------------------------------
\* One search on its own: main calls minimax on a position of a game, the
\* cache being empty.
\* ------------------------------------------------------------------------
\* the board after the columns of cols have been played in turn, X first
RECURSIVE PlayMoves(_, _, _)
PlayMoves(bd, cols, player) ==
    IF cols = <<>> THEN bd
    ELSE LET d == dropPiece(bd, Head(cols), player, "#")
         IN IF d[1] THEN PlayMoves(d[2], Tail(cols), Other(player))
            ELSE PlayMoves(bd, Tail(cols), player)

SearchPositions ==
    { [mode |-> 1, aiDepth |-> 4,
       cols |-> <<1, 3, 5, 3, 3, 3, 3, 3, 4, 4, 5, 5, 5, 5, 6, 5, 4, 4, 0, 4,
                  1, 1, 0, 4, 1, 0, 0>>],
      [mode |-> 1, aiDepth |-> 2, cols |-> <<3>>],
      [mode |-> 2, aiDepth |-> 2, cols |-> <<3, 3, 2>>] }

InitSearch ==
    /\ memo = EmptyMemo
    /\ memoCeiling = MAX_MEMORY_SIZE
    /\ seen = EmptyMemo
    /\ isAI = TRUE
    /\ current = "O"
    /\ gameOver = FALSE
    /\ targetCol = -1
    /\ pc = "search"
    /\ inputs = <<>>
    /\ free = 0
    /\ \E p \in SearchPositions :
          LET position == PlayMoves(initBoard, p.cols, "X")
              adaptive == getAdaptiveDepth(position, p.aiDepth)
          IN /\ gameMode = p.mode
             /\ aiDepth = p.aiDepth
             /\ moves = Len(p.cols)
             /\ board = adaptive[2]
             /\ b = adaptive[2]
             /\ original_depth = adaptive[1]
             /\ stack = <<NewFrame(adaptive[2], adaptive[1], INT_MIN, INT_MAX, TRUE)>>

NextSearch ==
    \/ MinimaxEnter
    \/ MinimaxDescend
    \/ MinimaxReturn
    \/ MinimaxFinish

SpecSearch == InitSearch /\ [][NextSearch]_vars

\* minimax without the cache, without alpha/beta and without the forced-win
\* cutoff: the score of bd under the same terminal tests and depth rules
RECURSIVE PlainMinimax(_, _, _)
PlainMinimax(bd, depth, maximizingPlayer) ==
    IF ~isScoreAttack /\ checkWin(bd, "O") THEN 1000000 + depth
    ELSE IF ~isScoreAttack /\ checkWin(bd, "X") THEN -1000000 - depth
    ELSE LET empty_cells == EmptyCells(bd)
             d == IF empty_cells <= original_depth * 2 /\ ~isScoreAttack
                  THEN empty_cells ELSE depth
             open == {c \in Cols : getNextOpenRow(bd, c) # -1}
             child(c) == PlainMinimax(
                 Place(bd, getNextOpenRow(bd, c), c,
                       IF maximizingPlayer THEN "O" ELSE "X"),
                 d - 1, ~maximizingPlayer)
             scores == {child(c) : c \in open}
         IN IF d = 0 THEN evaluateBoard(bd, "O")
            ELSE IF open = {} THEN 0
            ELSE IF maximizingPlayer
            THEN CHOOSE x \in scores : \A y \in scores : x >= y
            ELSE CHOOSE x \in scores : \A y \in scores : x <= y

\* ------------------------------------------------------------------------
\* Properties
\* ------------------------------------------------------------------------
\* no occupied cell of bd sits above an empty cell of the same column
NoFloating(bd) ==
    \A c \in Cols : \A r \in Rows :
        bd[r][c] = EMPTY => \A r2 \in 0..(r - 1) : bd[r2][c] = EMPTY

\* a human is about to type a column
HumanOnTurn ==
    /\ pc = "turn"
    /\ ~gameOver
    /\ moves < maxMoves
    /\ ~(isAI /\ current = "O")

\* the AI is on turn (in main, or inside its search)
AIOnTurn == isAI /\ current = "O" /\ ~gameOver /\ moves < maxMoves

\* col is a valid move on bd: an index in [0, COLS) of a column that is not full
ValidMove(bd, col) == col \in Cols /\ getNextOpenRow(bd, col) # -1

\* placing piece in column col of bd completes four in a row
CompletesFour(bd, col, piece) ==
    /\ ValidMove(bd, col)
    /\ checkWin(Place(bd, getNextOpenRow(bd, col), col, piece), piece)

\* C1 (gravity invariant): in every reachable state, on the game board and
\* on the board the search works on, every empty cell has only empty cells
\* above it.
C1_GravityInvariant == NoFloating(board) /\ NoFloating(b)

\* C3 (take the win): in classic mode, whenever the AI is on turn and some
\* column would complete four in a row for O, the column the AI then plays
\* completes four in a row for O.
C3_TakeTheWin ==
    [][ ( /\ AIOnTurn
          /\ gameMode = 1
          /\ \E c \in Cols : CompletesFour(board, c, "O")
          /\ moves' # moves )
        => CompletesFour(board, targetCol', "O") ]_vars

\* C4 (illegal moves are rejected without effect): when a human types a
\* number that is not a valid move (outside 1-7, or a full column), no cell
\* of the board changes, the move counter does not increase and the side to
\* move does not change.
C4_IllegalMoveRejected ==
    [][ (HumanOnTurn /\ ~ValidMove(board, targetCol'))
        => (board' = board /\ moves' = moves /\ current' = current) ]_vars

\* C2 (cache determinism): within one session, an invocation of minimax
\* returns the pair that the first invocation with the same board, depth
\* and side-to-move flag returned.
C2_CacheDeterminism ==
    (stack # <<>> /\ Top.phase = "ret") => seen[Top.key] = Top.result

\* C5 (scoped mutation): between two siblings and at every return of
\* minimax the board is the board at entry of the call, and countThreats
\* and getOptimizedMoves hand back the board they were given.
C5_ScopedMutation ==
    /\ (stack # <<>> /\ Top.phase \in {"loop", "ret"}) => b = Top.entry
    /\ \A p \in {"X", "O"} : countThreats(board, p)[2] = board
    /\ \A m \in BOOLEAN : getOptimizedMoves(b, m)[2] = b

\* a call that left its loop by an alpha/beta break has returned, on a board
\* that holds pieces, with the board as it was at entry
C5_PrunedReturnRestored ==
    /\ stack # <<>>
    /\ Top.phase = "ret"
    /\ Top.how = "pruned"
    /\ b = Top.entry
    /\ b # initBoard
    /\ getOptimizedMoves(b, Top.maximizingPlayer)[1] # <<>>

\* C6 (bounded cache): the number of cache entries never exceeds the
\* ceiling.
C6_BoundedCache == Cardinality(DOMAIN memo) <= memoCeiling

\* C7 (draw value): in classic mode, an invocation of minimax on a full
\* board without a completed line returns no column and score 0.
C7_DrawValue ==
    ( /\ stack # <<>>
      /\ Top.phase = "ret"
      /\ gameMode = 1
      /\ EmptyCells(b) = 0
      /\ ~checkWin(b, "O")
      /\ ~checkWin(b, "X") )
    => Top.result = <<-1, 0>>

\* the window holds three cells of piece and one empty cell that cannot be
\* played because the cell below it is empty
FloatingThree(bd, w, piece) ==
    /\ Cardinality({i \in 1..4 : CellAt(bd, w[i]) = piece}) = 3
    /\ \E i \in 1..4 : /\ CellAt(bd, w[i]) = EMPTY
                       /\ ~isValidPlacement(w[i][1], w[i][2], bd)

\* C9 (gravity-aware evaluation): on a board the search evaluates, a
\* window of three with a floating empty cell is not given the threat score
\* (+150 for O's three, -500 for X's three).
C9_GravityAwareEvaluation ==
    (stack # <<>> /\ Top.how = "leaf")
    => \A w \in Windows :
          /\ FloatingThree(b, w, "O") => WindowScore(b, w, "O") # 150
          /\ FloatingThree(b, w, "X") => WindowScore(b, w, "O") # -500

\* C10 (root-only forced-win cutoff): no invocation below the root of a
\* search returns by the forced-win early return.
C10_RootOnlyCutoff ==
    \A i \in 2..Len(stack) : stack[i].how # "cutoff"

\* C8 (move ordering affects only efficiency): started with an empty
\* cache, the score the root call of minimax returns is the value of
\* exhaustive minimax of the position.
C8_RootScoreIsMinimaxValue ==
    (Len(stack) = 1 /\ Top.phase = "ret")
    => Top.result[2] = PlainMinimax(Top.entry, original_depth, TRUE)

\* the number of cells of column col of bd that hold piece
PiecesInColumn(bd, col, piece) == Cardinality({r \in Rows : bd[r][col] = piece})

\* C11 (positional bonus): on the game board and on the board the search
\* works on, for either side, the positional part of evaluateBoard is 200
\* for each of the side's pieces in column 3 plus 100 for each of its pieces
\* in columns 2 and 4.
C11_PositionalBonus ==
    \A bd \in {board, b} : \A piece \in {"X", "O"} :
        CenterControl(bd, piece, 0)
            = 200 * PiecesInColumn(bd, 3, piece)
              + 100 * (PiecesInColumn(bd, 2, piece) + PiecesInColumn(bd, 4, piece))

\* the AI is on turn in a running game: the board is not full and, in
\* classic mode, nobody has completed a line
AITurnOfRunningGame ==
    /\ AIOnTurn
    /\ EmptyCells(board) > 0
    /\ gameMode = 1 => (~checkWin(board, "X") /\ ~checkWin(board, "O"))

\* C12 (legal AI move): a step that ends an AI turn of a running game
\* selects a column in [0, COLS) with an open row, places exactly one O, in
\* the lowest empty cell of that column, counts the move, and passes the
\* turn to X unless the move has won the classic game.
C12_LegalAIMove ==
    [][ (AITurnOfRunningGame /\ pc' = "turn")
        => /\ ValidMove(board, targetCol')
           /\ board' = Place(board, getNextOpenRow(board, targetCol'),
                             targetCol', "O")
           /\ moves' = moves + 1
           /\ (current' = "X" \/ (gameOver' /\ checkWin(board', "O"))) ]_vars

\* the AI has answered from its search: its piece is the top piece of the
\* column it selected and the turn is with X
C12_AIMoved ==
    /\ isAI
    /\ pc = "turn"
    /\ current = "X"
    /\ ~gameOver
    /\ memo # EmptyMemo
    /\ ValidMove(board, targetCol)
    /\ board[getNextOpenRow(board, targetCol) + 1][targetCol] = "O"

====
